---- MODULE Spec2Model ----
(***************************************************************************)
(* Model of the NexAssistAI accessibility scanner (src/utils.py,           *)
(* src/app.py).  Strings are sequences of one-character strings so that    *)
(* the string algorithms (URL normalisation, HTML chunking, cache-key      *)
(* rendering) are computed character by character, as the code does.       *)
(*                                                                         *)
(* Four specifications share the module:                                   *)
(*   SpecNorm  - normalize_url applied once and twice to bounded strings   *)
(*   SpecChunk - split_html_safely run character by character              *)
(*   Spec      - the Streamlit script of app.py run by one browser         *)
(*               session, with every widget event, over scans.db           *)
(*   SpecTwoSessions - two browser sessions of one server process, each    *)
(*               submitting the scan form, over the same scans.db          *)
(***************************************************************************)
EXTENDS Integers, Sequences, FiniteSets, TLC

VARIABLES
    nPc, nIn, nOut, nOut2,                      \* normalize_url harness
    cPc, cHtml, cSize, cPos, chunks, current, tag_count,  \* split_html_safely
    ss,      \* st.session_state of each browser session
    pc,      \* where each session's script run stands
    loc,     \* the local variables of a session's running pipeline
    ui,      \* what each session's last run rendered, and the widget clicked
    scans,   \* scans.db, table scans: the counts of today's rows per e-mail
    saved,   \* scans.db, table results: last report per e-mail
    runs,    \* number of script runs started
    calls,   \* number of fetch_page_content / analyze_accessibility calls
    fPc, fUrl, fTarget, fLog, fOut,             \* fetch_page_content
    aPc, aHtml, aAbbrev, aResults, aTries, aCalls, aFailed, aOut,  \* analyze_accessibility
    tPc, tBy, tTries, tLog, tOut,                \* get_user_tier
    mPc, mLen, mAbbrev, mChunks, mWarnings, mResults, mCancel, mCalls, mOut,  \* simulate_experience
    lPc, lHtml, lAbbrev, lChunks,  \* the chunk list of analyze_accessibility
    kPc, kA, kB, kKeyA, kKeyB  \* cache_key of two requests

normVars == <<nPc, nIn, nOut, nOut2>>
chunkVars == <<cPc, cHtml, cSize, cPos, chunks, current, tag_count>>
appVars == <<ss, pc, loc, ui, scans, saved, runs, calls>>
fetchVars == <<fPc, fUrl, fTarget, fLog, fOut>>
analyzeVars == <<aPc, aHtml, aAbbrev, aResults, aTries, aCalls, aFailed, aOut>>
tierVars == <<tPc, tBy, tTries, tLog, tOut>>
simVars == <<mPc, mLen, mAbbrev, mChunks, mWarnings, mResults, mCancel, mCalls, mOut>>
sliceVars == <<lPc, lHtml, lAbbrev, lChunks>>
keyVars == <<kPc, kA, kB, kKeyA, kKeyB>>
vars == <<normVars, chunkVars, appVars, fetchVars, analyzeVars, tierVars, simVars, sliceVars, keyVars>>

(***************************************************************************)
(* Bounds                                                                  *)
(***************************************************************************)
MaxUrlLen == 4
MaxHtmlLen == 5
MaxChunkSize == 3
MaxRuns == 2
MaxNavRuns == 3
MaxDocLen == 3
SliceLen == 2      \* stands for the 5000 characters of a slice (utils.py:180)

(***************************************************************************)
(* Strings                                                                 *)
(***************************************************************************)
RECURSIVE StringsUpTo(_, _)
StringsUpTo(alphabet, n) ==
    IF n = 0 THEN {<<>>}
    ELSE LET shorter == StringsUpTo(alphabet, n - 1)
         IN  shorter \cup {Append(s, c) : s \in {t \in shorter : Len(t) = n - 1}, c \in alphabet}

Whitespace == {" "}

RECURSIVE LStrip(_)
LStrip(s) == IF s # <<>> /\ Head(s) \in Whitespace THEN LStrip(Tail(s)) ELSE s

RECURSIVE RStrip(_)
RStrip(s) ==
    IF s # <<>> /\ s[Len(s)] \in Whitespace THEN RStrip(SubSeq(s, 1, Len(s) - 1)) ELSE s

\* str.strip()
Strip(s) == RStrip(LStrip(s))

IsBlank(s) == Strip(s) = <<>>

\* str.find(c) counted from 1; 0 when absent
Find(s, c) ==
    IF \E i \in 1..Len(s) : s[i] = c
    THEN CHOOSE i \in 1..Len(s) : s[i] = c /\ \A j \in 1..(i - 1) : s[j] # c
    ELSE 0

\* str.find(c, start) counted from 1; 0 when absent
FindFrom(s, c, start) ==
    IF \E i \in start..Len(s) : s[i] = c
    THEN CHOOSE i \in start..Len(s) : s[i] = c /\ \A j \in start..(i - 1) : s[j] # c
    ELSE 0

(***************************************************************************)
(* normalize_url (src/utils.py:115-122) over urllib.parse.urlparse         *)
(***************************************************************************)
UrlChars == {"a", ":", "/", " "}
AlphaChars == {"a", "h", "t", "p", "s"}
SchemeChars == AlphaChars
HttpsPrefix == <<"h", "t", "t", "p", "s", ":", "/", "/">>

\* urlparse(url): the scheme and netloc components the code reads.
\* Leading spaces are dropped, the text before the first ':' is a scheme
\* when it starts with a letter and holds scheme characters only, and the
\* netloc is what follows a leading '//' up to the next '/'.
UrlParse(url) ==
    LET u == LStrip(url)
        i == Find(u, ":")
        hasScheme == /\ i > 1
                     /\ u[1] \in AlphaChars
                     /\ \A k \in 1..(i - 1) : u[k] \in SchemeChars
        rest == IF hasScheme THEN SubSeq(u, i + 1, Len(u)) ELSE u
        slashes == Len(rest) >= 2 /\ rest[1] = "/" /\ rest[2] = "/"
        d == FindFrom(rest, "/", 3)
        delim == IF d = 0 THEN Len(rest) + 1 ELSE d
    IN  [scheme |-> IF hasScheme THEN SubSeq(u, 1, i - 1) ELSE <<>>,
         netloc |-> IF slashes THEN SubSeq(rest, 3, delim - 1) ELSE <<>>]

Raised == [ok |-> FALSE, val |-> <<>>]
Returned(v) == [ok |-> TRUE, val |-> v]

\* normalize_url(url): ValueError is Raised, a returned string is Returned(..)
NormalizeUrl(url) ==
    LET parsed == UrlParse(Strip(url))
        url2 == IF parsed.scheme = <<>> THEN HttpsPrefix \o url ELSE url
        parsed2 == IF parsed.scheme = <<>> THEN UrlParse(url2) ELSE parsed
    IN  IF parsed2.netloc = <<>> THEN Raised ELSE Returned(url2)

NormInit ==
    /\ nPc = "input"
    /\ nIn \in StringsUpTo(UrlChars, MaxUrlLen)
    /\ nOut = Raised
    /\ nOut2 = Raised

NormalizeOnce ==
    /\ nPc = "input"
    /\ nOut' = NormalizeUrl(nIn)
    /\ nPc' = "once"
    /\ UNCHANGED <<nIn, nOut2>>
    /\ UNCHANGED <<chunkVars, appVars, fetchVars, analyzeVars, tierVars, simVars, sliceVars, keyVars>>

NormalizeTwice ==
    /\ nPc = "once"
    /\ nOut.ok
    /\ nOut2' = NormalizeUrl(nOut.val)
    /\ nPc' = "twice"
    /\ UNCHANGED <<nIn, nOut>>
    /\ UNCHANGED <<chunkVars, appVars, fetchVars, analyzeVars, tierVars, simVars, sliceVars, keyVars>>

NormIdle ==
    /\ nPc = "off" /\ nIn = <<>> /\ nOut = Raised /\ nOut2 = Raised

(***************************************************************************)
(* split_html_safely (src/utils.py:158-174), one loop iteration per step   *)
(***************************************************************************)
HtmlChars == {"<", ">", "x"}

ChunkInit ==
    /\ cPc = "loop"
    /\ cHtml \in StringsUpTo(HtmlChars, MaxHtmlLen)
    /\ cSize \in 1..MaxChunkSize
    /\ cPos = 0
    /\ chunks = <<>>
    /\ current = <<>>
    /\ tag_count = 0

\* a bug variant of the close-chunk test: the tag depth is not consulted
CloseChunkAnyDepth(cur, size, depth) == Len(cur) >= size

\* a bug variant of the close-chunk test: off by one (> for >=)
CloseChunkLate(cur, size, depth) == Len(cur) > size /\ depth = 0

\* `len(current) >= chunk_size and tag_count == 0`
CloseChunk(cur, size, depth) == Len(cur) >= size /\ depth = 0

\* a bug variant of the trailing flush: the remainder is dropped
FlushNothing(cs, cur) == cs

\* `if current: chunks.append(current)`
Flush(cs, cur) == IF cur # <<>> THEN Append(cs, cur) ELSE cs

\* one iteration of `for char in html_content`
ChunkStep ==
    /\ cPc = "loop"
    /\ cPos < Len(cHtml)
    /\ LET char == cHtml[cPos + 1]
           cur == Append(current, char)
           depth == IF char = "<" THEN tag_count + 1
                    ELSE IF char = ">" THEN tag_count - 1
                    ELSE tag_count
       IN  /\ cPos' = cPos + 1
           /\ tag_count' = depth
           /\ IF CloseChunk(cur, cSize, depth)
              THEN /\ chunks' = Append(chunks, cur)
                   /\ current' = <<>>
              ELSE /\ current' = cur
                   /\ UNCHANGED chunks
    /\ UNCHANGED <<cPc, cHtml, cSize>>
    /\ UNCHANGED <<normVars, appVars, fetchVars, analyzeVars, tierVars, simVars, sliceVars, keyVars>>

\* loop exit, trailing buffer and return
ChunkReturn ==
    /\ cPc = "loop"
    /\ cPos = Len(cHtml)
    /\ chunks' = Flush(chunks, current)
    /\ cPc' = "done"
    /\ UNCHANGED <<cHtml, cSize, cPos, current, tag_count>>
    /\ UNCHANGED <<normVars, appVars, fetchVars, analyzeVars, tierVars, simVars, sliceVars, keyVars>>

ChunkIdle ==
    /\ cPc = "off" /\ cHtml = <<>> /\ cSize = 1 /\ cPos = 0
    /\ chunks = <<>> /\ current = <<>> /\ tag_count = 0

(***************************************************************************)
(* fetch_page_content (src/utils.py:130-156): the URL is normalized, the   *)
(* browser strategy (playwright) runs inside `try`, and the plain HTTP GET *)
(* (requests) runs inside the handler of the first.  fLog records each     *)
(* strategy attempt of the call and whether it succeeded.                  *)
(***************************************************************************)
NoFetchResult == [kind |-> "none", html |-> "none", error |-> <<>>]

\* {"success": True, "html": content}
Fetched(html) == [kind |-> "success", html |-> html, error |-> <<>>]

\* f"Failed to fetch {target_url}. ..."
FailureReason(target) == <<"F", "a", "i", "l", "e", "d", " ">> \o target

\* {"success": False, "error": ..., "score": 0, "summary": ...}
FetchFailure(target) == [kind |-> "failed", html |-> "none", error |-> FailureReason(target)]

\* an exception that leaves fetch_page_content
FetchRaised == [kind |-> "raised", html |-> "none", error |-> <<>>]

\* a bug variant of the fallback's handler: the exception is re-raised
FallbackPropagates(ok, html, target) == IF ok THEN Fetched(html) ELSE FetchRaised

\* src/utils.py:145-156: what the fallback returns
Fallback(ok, html, target) == IF ok THEN Fetched(html) ELSE FetchFailure(target)

FetchInit ==
    /\ fPc = "normalize"
    /\ fUrl \in StringsUpTo(UrlChars, MaxUrlLen)
    /\ fTarget = <<>>
    /\ fLog = <<>>
    /\ fOut = NoFetchResult

\* `target_url = normalize_url(target_url)`, outside the try
FetchNormalize ==
    /\ fPc = "normalize"
    /\ IF NormalizeUrl(fUrl).ok
       THEN /\ fTarget' = NormalizeUrl(fUrl).val
            /\ fPc' = "playwright"
            /\ UNCHANGED fOut
       ELSE /\ fOut' = FetchRaised
            /\ fPc' = "done"
            /\ UNCHANGED fTarget
    /\ UNCHANGED <<fUrl, fLog>>
    /\ UNCHANGED <<normVars, chunkVars, appVars, analyzeVars, tierVars, simVars, sliceVars, keyVars>>

\* src/utils.py:132-142: the browser strategy; ok is whether page.goto and
\* page.content (and the closes) went through
FetchPlaywright(ok, html) ==
    /\ fPc = "playwright"
    /\ fLog' = Append(fLog, [strategy |-> "playwright", ok |-> ok])
    /\ IF ok
       THEN /\ fOut' = Fetched(html)
            /\ fPc' = "done"
       ELSE /\ fPc' = "requests"
            /\ UNCHANGED fOut
    /\ UNCHANGED <<fUrl, fTarget>>
    /\ UNCHANGED <<normVars, chunkVars, appVars, analyzeVars, tierVars, simVars, sliceVars, keyVars>>

\* src/utils.py:143-156: the plain HTTP GET; ok is whether requests.get and
\* raise_for_status went through
FetchRequests(ok, html) ==
    /\ fPc = "requests"
    /\ fLog' = Append(fLog, [strategy |-> "requests", ok |-> ok])
    /\ fOut' = Fallback(ok, html, fTarget)
    /\ fPc' = "done"
    /\ UNCHANGED <<fUrl, fTarget>>
    /\ UNCHANGED <<normVars, chunkVars, appVars, analyzeVars, tierVars, simVars, sliceVars, keyVars>>

FetchIdle ==
    /\ fPc = "off" /\ fUrl = <<>> /\ fTarget = <<>> /\ fLog = <<>> /\ fOut = NoFetchResult

(***************************************************************************)
(* analyze_accessibility (src/utils.py:176-251) under its decorator        *)
(* backoff.on_exception(backoff.expo, Exception, max_tries=3): an          *)
(* exception that leaves the body starts the body again, up to MAX_TRIES   *)
(* executions.  A document is a sequence of pieces, each a run of text or  *)
(* an <img> element; the body slices it into pieces of SliceLen.           *)
(***************************************************************************)
MAX_TRIES == 3

\* text, <img src>, <img src alt="">, <img src alt="text">
DocPieces == {"x", "img", "imgEmptyAlt", "imgAlt"}

Min(a, b) == IF a < b THEN a ELSE b

\* [html_content[i:i+5000] for i in range(0, len(html_content), 5000)]
Slices(html) ==
    [k \in 1..((Len(html) + SliceLen - 1) \div SliceLen) |->
        SubSeq(html, (k - 1) * SliceLen + 1, Min(k * SliceLen, Len(html)))]

\* the chunks the loop runs over: `chunks[:1]` when abbreviated
AnalyzeChunks(html, abbreviated) ==
    IF abbreviated THEN SubSeq(Slices(html), 1, Min(1, Len(Slices(html)))) ELSE Slices(html)

MaxChunks == (MaxDocLen + SliceLen - 1) \div SliceLen

\* what json.loads makes of a model reply: the "issues" and "disclaimer"
\* keys may be absent, and the score is whatever integer the model wrote
Scores == {0, 100, 150}
Replies ==
    {r \in [ok : {TRUE}, has_issues : BOOLEAN, n : {0, 2}, score : Scores,
             has_disclaimer : BOOLEAN] : r.has_issues \/ r.n = 0}

\* an exception inside the per-chunk try: the request, `.strip()` or
\* json.loads raised
CallFailed == [ok |-> FALSE, has_issues |-> FALSE, n |-> 0, score |-> 0, has_disclaimer |-> FALSE]

CallOutcomes == {CallFailed} \cup Replies

\* the issues of the reply for chunk i
AiIssues(i, r) == [k \in 1..r.n |-> [src |-> "ai", chunk |-> i, k |-> k]]

\* one entry of `results`
Parsed(i, r) == [has_issues |-> r.has_issues, issues |-> AiIssues(i, r),
                 score |-> r.score, has_disclaimer |-> r.has_disclaimer]

\* len([img for img in soup.find_all('img') if not img.get('alt')])
MissingAlt(html) == Cardinality({i \in 1..Len(html) : html[i] \in {"img", "imgEmptyAlt"}})

\* the issue appended to results[0]["issues"] (utils.py:234-243)
StaticIssue(missing_alt) == [src |-> "static", chunk |-> 0, k |-> missing_alt]

NoAnalysis == [kind |-> "none", issues |-> <<>>, score_sum |-> 0, parts |-> 0]

\* a bug variant of the per-chunk handler's value: an empty report
ExtractionFailedAsEmptyReport == [kind |-> "report", issues |-> <<>>, score_sum |-> 0, parts |-> 1]

\* {"error": ..., "disclaimer": "Scan failed."} (utils.py:230)
ExtractionFailed == [kind |-> "error", issues |-> <<>>, score_sum |-> 0, parts |-> 0]

\* an exception that leaves analyze_accessibility after the last try
AnalyzeRaisedOut == [kind |-> "raised", issues |-> <<>>, score_sum |-> 0, parts |-> 0]

RECURSIVE SumScores(_)
SumScores(rs) == IF rs = <<>> THEN 0 ELSE Head(rs).score + SumScores(Tail(rs))

\* a bug variant of the merge loop: only the first result's issues are kept
FirstIssuesOnly(rs) == Head(rs).issues

\* `for r in results: for issue in r.get("issues", []): merged["issues"].append(issue)`
RECURSIVE MergedIssues(_)
MergedIssues(rs) == IF rs = <<>> THEN <<>> ELSE Head(rs).issues \o MergedIssues(Tail(rs))

\* utils.py:231-251 on a non-empty `results`: the static issue goes to the
\* end of results[0]["issues"]; the score is the sum of int(score)/len(results),
\* kept here as the exact fraction score_sum / parts
Merged(rs, missing_alt) ==
    LET first == IF missing_alt > 0
                 THEN [rs[1] EXCEPT !.issues = Append(@, StaticIssue(missing_alt))]
                 ELSE rs[1]
        rs1 == [rs EXCEPT ![1] = first]
    IN  [kind |-> "report", issues |-> MergedIssues(rs1),
         score_sum |-> SumScores(rs1), parts |-> Len(rs1)]

\* the exceptions of utils.py:231-244: IndexError of results[0] on an empty
\* list, KeyError of results[0]["issues"] and of results[0]["disclaimer"]
MergeRaises(rs, missing_alt) ==
    \/ rs = <<>>
    \/ missing_alt > 0 /\ ~rs[1].has_issues
    \/ ~rs[1].has_disclaimer

AnalyzeInit ==
    /\ aPc = "loop"
    /\ aHtml \in StringsUpTo(DocPieces, MaxDocLen)
    /\ aAbbrev \in BOOLEAN
    /\ aResults = <<>>
    /\ aTries = 1
    /\ aCalls = [k \in 1..MaxChunks |-> 0]
    /\ aFailed = <<>>
    /\ aOut = NoAnalysis

\* one iteration of `for i, chunk in enumerate(chunks)` (utils.py:185-230)
ModelCall(o) ==
    LET i == Len(aResults) + 1
    IN  /\ aPc = "loop"
        /\ i <= Len(AnalyzeChunks(aHtml, aAbbrev))
        /\ aCalls' = [aCalls EXCEPT ![i] = @ + 1]
        /\ IF ~o.ok
           THEN /\ aFailed' = Append(aFailed, i)
                /\ aOut' = ExtractionFailed
                /\ aPc' = "done"
                /\ UNCHANGED aResults
           ELSE /\ aResults' = Append(aResults, Parsed(i, o))
                /\ UNCHANGED <<aFailed, aOut, aPc>>
        /\ UNCHANGED <<aHtml, aAbbrev, aTries>>
        /\ UNCHANGED <<normVars, chunkVars, appVars, fetchVars, tierVars, simVars, sliceVars, keyVars>>

\* utils.py:231-251 after the loop, and the decorator's reaction to an
\* exception: the body runs again unless this was try number MAX_TRIES
MergeStep ==
    /\ aPc = "loop"
    /\ Len(aResults) = Len(AnalyzeChunks(aHtml, aAbbrev))
    /\ IF ~MergeRaises(aResults, MissingAlt(aHtml))
       THEN /\ aOut' = Merged(aResults, MissingAlt(aHtml))
            /\ aPc' = "done"
            /\ UNCHANGED <<aResults, aTries>>
       ELSE IF aTries < MAX_TRIES
       THEN /\ aTries' = aTries + 1
            /\ aResults' = <<>>
            /\ UNCHANGED <<aOut, aPc>>
       ELSE /\ aOut' = AnalyzeRaisedOut
            /\ aPc' = "done"
            /\ UNCHANGED <<aResults, aTries>>
    /\ UNCHANGED <<aHtml, aAbbrev, aCalls, aFailed>>
    /\ UNCHANGED <<normVars, chunkVars, appVars, fetchVars, tierVars, simVars, sliceVars, keyVars>>

AnalyzeIdle ==
    /\ aPc = "off" /\ aHtml = <<>> /\ aAbbrev = TRUE /\ aResults = <<>> /\ aTries = 1
    /\ aCalls = [k \in 1..MaxChunks |-> 0] /\ aFailed = <<>> /\ aOut = NoAnalysis

(***************************************************************************)
(* get_user_tier (src/utils.py:28-113).  The inner _fetch runs under       *)
(* backoff.on_exception(backoff.expo, Exception, max_tries=3); the outer   *)
(* try turns the exception of the last attempt into "Free".  One step is   *)
(* one execution of _fetch, and tLog records what Stripe answered to it.   *)
(***************************************************************************)
TIER_MAX_TRIES == 3
MaxSubs == 2

DeclaredTiers == {"Free", "Pro", "Agency", "Enterprise"}

SubStatuses == {"active", "trialing", "canceled"}
\* the price id under items.data[0].price and the id of the legacy plan
ItemPrices == {"none", "price_pro", "price_agency", "price_other"}
PlanIds == {"none", "price_pro"}
Subscriptions == [status : SubStatuses, item_price : ItemPrices, plan : PlanIds]

\* what Stripe answers to one execution of _fetch: an exception in one of
\* its calls, an empty customer search, or the customer's subscriptions
StripeRaised == [kind |-> "raise", subs |-> <<>>]
NoCustomer == [kind |-> "no_customer", subs |-> <<>>]
SubsAnswer(subs) == [kind |-> "subs", subs |-> subs]
StripeAnswers ==
    {StripeRaised, NoCustomer} \cup {SubsAnswer(subs) : subs \in StringsUpTo(Subscriptions, MaxSubs)}

\* a bug variant of the status test: every subscription counts as paid
AnyStatusIsPaid(status) == TRUE

\* `status in ("active", "trialing")`
IsPaidStatus(status) == status \in {"active", "trialing"}

\* a subsequence that keeps the order of the list (sorted() is stable)
RECURSIVE Keep(_, _)
Keep(subs, wanted) ==
    IF subs = <<>> THEN <<>>
    ELSE IF IsPaidStatus(Head(subs).status) = wanted
         THEN <<Head(subs)>> \o Keep(Tail(subs), wanted)
         ELSE Keep(Tail(subs), wanted)

\* sorted(subs.data, key=lambda s: 0 if status in ("active", "trialing") else 1)
Prioritized(subs) == Keep(subs, TRUE) \o Keep(subs, FALSE)

\* Step 4: the price under items, else the legacy plan id
PriceIdOf(sub) == IF sub.item_price # "none" THEN sub.item_price ELSE sub.plan

\* PRICE_ID_TO_TIER.get(price_id, "Free")
PRICE_ID_TO_TIER(price_id) ==
    CASE price_id = "price_pro" -> "Pro"
      [] price_id = "price_agency" -> "Agency"
      [] OTHER -> "Free"

\* what _fetch returns for an answer that is not an exception (utils.py:47-102)
FetchTier(answer) ==
    IF answer.kind = "no_customer" \/ answer.subs = <<>> THEN "Free"
    ELSE LET sub == Prioritized(answer.subs)[1]
         IN  IF ~IsPaidStatus(sub.status) THEN "Free"
             ELSE IF PriceIdOf(sub) = "none" THEN "Free"
             ELSE PRICE_ID_TO_TIER(PriceIdOf(sub))

TierInit ==
    /\ tPc = "fetch"
    /\ tBy \in {"email", "customer_id"}
    /\ tTries = 1
    /\ tLog = <<>>
    /\ tOut = "none"

\* one execution of _fetch and what the decorator and the outer try make of
\* it; the customer search is skipped when a customer_id was passed
TierAttempt(answer) ==
    /\ tPc = "fetch"
    /\ answer.kind = "no_customer" => tBy = "email"
    /\ tLog' = Append(tLog, answer)
    /\ IF answer.kind # "raise"
       THEN /\ tOut' = FetchTier(answer)
            /\ tPc' = "done"
            /\ UNCHANGED tTries
       ELSE IF tTries < TIER_MAX_TRIES
       THEN /\ tTries' = tTries + 1
            /\ UNCHANGED <<tOut, tPc>>
       ELSE /\ tOut' = "Free"
            /\ tPc' = "done"
            /\ UNCHANGED tTries
    /\ UNCHANGED tBy
    /\ UNCHANGED <<normVars, chunkVars, appVars, fetchVars, analyzeVars, simVars, sliceVars, keyVars>>

TierIdle ==
    /\ tPc = "off" /\ tBy = "email" /\ tTries = 1 /\ tLog = <<>> /\ tOut = "none"

(***************************************************************************)
(* simulate_experience (src/simulator/simulator.py:64-108) for a known     *)
(* persona.  The document is its length mLen; a chunk is the range of      *)
(* character positions it holds.  mCalls is the sequence of model          *)
(* requests: the index of the chunk sent, or 0 for the summarization       *)
(* request.                                                                *)
(***************************************************************************)
MaxSimLen == 6
SimLimit == 4      \* stands for limit = 60000 (simulator.py:69)
SimSlice == 1      \* stands for the 3000 characters of a slice (simulator.py:70)
SimCap == 2        \* stands for the cap of 10 chunks (simulator.py:74)

Range(lo, hi) == [lo |-> lo, hi |-> hi]

\* [html[i:i+3000] for i in range(0, len(html), 3000)] if len(html) > limit
\* else [html[:limit]]
SimChunks(n) ==
    IF n > SimLimit
    THEN [k \in 1..((n + SimSlice - 1) \div SimSlice) |->
             Range((k - 1) * SimSlice + 1, Min(k * SimSlice, n))]
    ELSE <<Range(1, Min(n, SimLimit))>>

\* `chunks = chunks[:10]` when abbreviated
SimCapped(cs, abbreviated) ==
    IF abbreviated THEN SubSeq(cs, 1, Min(SimCap, Len(cs))) ELSE cs

\* the st.warning calls of simulator.py:71-76
SimWarnings(n, cs) ==
    (IF n > SimLimit THEN {"chunked"} ELSE {})
    \cup (IF Len(cs) > SimCap THEN {"cap"} ELSE {})

\* the model's reply for chunk i
Narrative(cs, i) == [chunk |-> i, text |-> cs[i]]

NoSimulation == [kind |-> "none", of |-> <<>>]
\* the summary of the joined narratives (simulator.py:95-105)
SimSummary(results) == [kind |-> "summary", of |-> results]
\* {"error": "Failed to simulate experience. ..."} (simulator.py:106-108)
SimError == [kind |-> "error", of |-> <<>>]

\* a bug variant of the cancellation test: the flag is not consulted
CancelIgnored(flag) == FALSE

\* `if st.session_state.get('sim_cancel', False): break`
SimCancelled(flag) == flag

SimInit ==
    /\ mPc = "start"
    /\ mLen \in 0..MaxSimLen
    /\ mAbbrev \in BOOLEAN
    /\ mChunks = <<>>
    /\ mWarnings = {}
    /\ mResults = <<>>
    /\ mCancel = FALSE
    /\ mCalls = <<>>
    /\ mOut = NoSimulation

\* simulator.py:69-78: the chunk list, the cap and the warnings
SimPrepare ==
    /\ mPc = "start"
    /\ mChunks' = SimCapped(SimChunks(mLen), mAbbrev)
    /\ mWarnings' = SimWarnings(mLen, SimCapped(SimChunks(mLen), mAbbrev))
    /\ mPc' = "loop"
    /\ UNCHANGED <<mLen, mAbbrev, mResults, mCancel, mCalls, mOut>>
    /\ UNCHANGED <<normVars, chunkVars, appVars, fetchVars, analyzeVars, tierVars, sliceVars, keyVars>>

\* st.session_state['sim_cancel'] is set while the simulation runs
SimCancelRequest ==
    /\ mPc \in {"start", "loop"}
    /\ ~mCancel
    /\ mCancel' = TRUE
    /\ UNCHANGED <<mPc, mLen, mAbbrev, mChunks, mWarnings, mResults, mCalls, mOut>>
    /\ UNCHANGED <<normVars, chunkVars, appVars, fetchVars, analyzeVars, tierVars, sliceVars, keyVars>>

\* one iteration of `for i, chunk in enumerate(chunks)` (simulator.py:81-94),
\* or the end of the loop; ok is whether the model request went through
SimIteration(ok) ==
    LET i == Len(mResults) + 1
    IN  /\ mPc = "loop"
        /\ IF i > Len(mChunks) \/ SimCancelled(mCancel)
           THEN /\ mPc' = "summarize"
                /\ UNCHANGED <<mResults, mCalls, mOut>>
           ELSE /\ mCalls' = Append(mCalls, i)
                /\ IF ok
                   THEN /\ mResults' = Append(mResults, Narrative(mChunks, i))
                        /\ UNCHANGED <<mPc, mOut>>
                   ELSE /\ mOut' = SimError
                        /\ mPc' = "done"
                        /\ UNCHANGED mResults
        /\ UNCHANGED <<mLen, mAbbrev, mChunks, mWarnings, mCancel>>
        /\ UNCHANGED <<normVars, chunkVars, appVars, fetchVars, analyzeVars, tierVars, sliceVars, keyVars>>

\* simulator.py:95-108: the summarization request and the return
SimSummarize(ok) ==
    /\ mPc = "summarize"
    /\ mCalls' = Append(mCalls, 0)
    /\ mOut' = IF ok THEN SimSummary(mResults) ELSE SimError
    /\ mPc' = "done"
    /\ UNCHANGED <<mLen, mAbbrev, mChunks, mWarnings, mResults, mCancel>>
    /\ UNCHANGED <<normVars, chunkVars, appVars, fetchVars, analyzeVars, tierVars, sliceVars, keyVars>>

SimIdle ==
    /\ mPc = "off" /\ mLen = 0 /\ mAbbrev = TRUE /\ mChunks = <<>> /\ mWarnings = {}
    /\ mResults = <<>> /\ mCancel = FALSE /\ mCalls = <<>> /\ mOut = NoSimulation

(***************************************************************************)
(* The chunk list of analyze_accessibility (src/utils.py:180-182) over a   *)
(* document given character by character                                   *)
(***************************************************************************)
SliceInit ==
    /\ lPc = "input"
    /\ lHtml \in StringsUpTo(HtmlChars, MaxHtmlLen)
    /\ lAbbrev \in BOOLEAN
    /\ lChunks = <<>>

\* `chunks = [html_content[i:i+5000] for ...]` and `chunks = chunks[:1]`
BuildChunkList ==
    /\ lPc = "input"
    /\ lChunks' = AnalyzeChunks(lHtml, lAbbrev)
    /\ lPc' = "done"
    /\ UNCHANGED <<lHtml, lAbbrev>>
    /\ UNCHANGED <<normVars, chunkVars, appVars, fetchVars, analyzeVars, tierVars, simVars, keyVars>>

SliceIdle ==
    /\ lPc = "off" /\ lHtml = <<>> /\ lAbbrev = TRUE /\ lChunks = <<>>

(***************************************************************************)
(* app.py: the Streamlit script.  Each browser session owns one            *)
(* st.session_state (ss[s]); the SQLite file scans.db (scans, saved) is    *)
(* shared by all sessions.  A script run is the steps                      *)
(*   top of script -> auto-scan block -> consolidated scan -> tail         *)
(* and pc[s] is the position of session s's current run.                   *)
(***************************************************************************)
Sessions == {"s1", "s2"}

AnonymousEmail == <<"f">>                     \* "anonymous@freeuser.com"
FormEmails == {<<>>, <<"u">>}                 \* what the e-mail box may hold
AllEmails == {AnonymousEmail, <<"u">>}

\* what the URL box may hold
RawUrls == {<<>>, <<" ">>, <<"a", ":">>, <<"a">>, HttpsPrefix \o <<"a">>,
            <<" ", "a">>, HttpsPrefix \o <<" ", "a">>}

Htmls == {"page"}                             \* fetched documents
ReportVersions == {1, 2}                      \* distinct model answers

PaidTiers == {"Pro", "Agency", "Enterprise"}
\* get_user_tier returns "Free" or a tier of PRICE_ID_TO_TIER; Stripe may
\* change between two calls, so each call draws its result anew
ResolvedTiers == {"Free", "Pro", "Agency"}

GET_STARTED_IDX == 0
RESULTS_IDX == 1

\* len(menu_options)
MenuOptionCount(tier) == IF tier \in PaidTiers THEN 4 ELSE 3

NoResults == [kind |-> "none", v |-> 0, html |-> "none", url |-> <<>>, exports |-> FALSE]

\* the dict analyze_accessibility returns on success / on a failed model call
ReportOf(v) == [kind |-> "report", v |-> v, html |-> "none", url |-> <<>>, exports |-> FALSE]
ErrorDict == [kind |-> "error", v |-> 0, html |-> "none", url |-> <<>>, exports |-> FALSE]

EmptyCache == <<>>

\* Session Defaults (app.py:66-81)
SessionDefaults ==
    [user_email |-> <<>>, email |-> <<>>, url |-> <<>>, tier |-> "Free",
     results |-> NoResults, html |-> "none", menu_index |-> 0,
     scan_cache |-> EmptyCache, submitted |-> FALSE, full_scan |-> FALSE,
     trigger_scan_after_upgrade |-> FALSE]

\* a rerun that carries no widget value (a page load, the Dark Mode box)
Rerun == [type |-> "rerun", choice |-> 0, email |-> <<>>, url |-> <<>>, full |-> FALSE]

\* what the last run rendered (number of menu options, the form, the Retry
\* buttons), the widget clicked for the current run and the branch its
\* consolidated scan block took; `menu` is the sidebar's selection of the run
\* and `page` the page the run rendered below the scan blocks; `auto` is
\* the branch the run's auto-scan block took
NoUi == [options |-> 0, form |-> FALSE, retry |-> {}, clicked |-> "rerun", outcome |-> "none",
         menu |-> 0, page |-> "none", auto |-> "none"]

NoLocals == [email |-> <<>>, url |-> <<>>, normalized_url |-> <<>>,
             full_scan |-> FALSE, cache_key |-> <<>>, html |-> "none"]

\* a bug variant: the text is handed on when normalize_url raises
SafeNormalizeKeepsInput(u) ==
    IF u = <<>> THEN <<>>
    ELSE IF NormalizeUrl(u).ok THEN NormalizeUrl(u).val ELSE u

\* safe_normalize(u) (app.py:153-161)
SafeNormalize(u) ==
    IF u = <<>> THEN <<>>
    ELSE IF NormalizeUrl(u).ok THEN NormalizeUrl(u).val ELSE <<>>

BoolStr(b) == IF b THEN <<"T", "r", "u", "e">> ELSE <<"F", "a", "l", "s", "e">>

\* f"{email}::{normalized_url}::{full_scan}"
CacheKey(email, normalized_url, full_scan) ==
    email \o <<":", ":">> \o normalized_url \o <<":", ":">> \o BoolStr(full_scan)

\* The table scans (email, count, date) is created without a key
\* (app.py:88), so a statement INSERT OR REPLACE never replaces a row: the
\* table holds one row per call of increment_scan_count.  table[email] is
\* the list of counts of the rows of `email` for today's date, oldest first.
NoRows == <<>>

\* check_scan_limit(email) (app.py:131-138): the count of the first row the
\* SELECT finds (fetchone), 0 without a row
CheckScanLimit(table, email) == IF table[email] = NoRows THEN 0 ELSE table[email][1]

\* increment_scan_count(email) (app.py:140-151): a new row whose count is
\* COALESCE((SELECT count + 1 ... ), 1), the subquery being the first row's
IncrementScanCount(table, email) ==
    [table EXCEPT ![email] = Append(@, IF @ = NoRows THEN 1 ELSE @[1] + 1)]

\* save_results_to_db(email, results) (app.py:123-129)
SaveResultsToDb(table, email, results) == [table EXCEPT ![email] = results]

\* cache[key] = results
CachePut(cache, key, results) == (key :> results) @@ cache

\* the widget events a user can send to a session
Events ==
    {Rerun}
    \cup {[type |-> "menu", choice |-> c, email |-> <<>>, url |-> <<>>, full |-> FALSE] : c \in 0..3}
    \cup {[type |-> "form", choice |-> 0, email |-> e, url |-> u, full |-> f] :
              e \in FormEmails, u \in RawUrls, f \in BOOLEAN}
    \cup {[type |-> t, choice |-> 0, email |-> <<>>, url |-> <<>>, full |-> FALSE] :
              t \in {"refresh_tier_button", "reset_submitted", "clear_results", "clear_cache",
                     "retry_limit", "retry_fetch", "retry_analysis", "retry_url_error"}}

RetryKeys == {"retry_limit", "retry_fetch", "retry_analysis", "retry_url_error"}

\* a widget can send an event only if the last run rendered it
EventPossible(u, ev) ==
    CASE ev.type = "menu" -> ev.choice < u.options
      [] ev.type = "form" -> u.form
      [] ev.type \in RetryKeys -> ev.type \in u.retry
      [] ev.type = "rerun" -> TRUE
      [] OTHER -> u.options > 0

(***************************************************************************)
(* The cache key (src/app.py:358, 428) rendered for two requests           *)
(***************************************************************************)
\* e-mails as typed into the form: free text
KeyEmails == {<<"u">>, <<"u", ":", ":", "a", ":", "/", "/", "a">>}

\* URLs as typed into the form
KeyRawUrls == {<<"a">>, <<"a", ":", "/", "/", "a">>,
               <<"a", ":", "/", "/", "a", ":", ":", "a", ":", "/", "/", "a">>}

\* email, url and full_scan of a request
Requests == [email : KeyEmails, url : KeyRawUrls, full_scan : BOOLEAN]

\* `normalized_url = safe_normalize(url.strip())` and the f-string
RenderKey(r) == CacheKey(r.email, SafeNormalize(Strip(r.url)), r.full_scan)

KeyInit ==
    /\ kPc = "input"
    /\ kA \in Requests
    /\ kB \in Requests
    /\ kKeyA = <<>>
    /\ kKeyB = <<>>

RenderKeys ==
    /\ kPc = "input"
    /\ kKeyA' = RenderKey(kA)
    /\ kKeyB' = RenderKey(kB)
    /\ kPc' = "done"
    /\ UNCHANGED <<kA, kB>>
    /\ UNCHANGED <<normVars, chunkVars, appVars, fetchVars, analyzeVars, tierVars, simVars, sliceVars>>

KeyIdle ==
    /\ kPc = "off" /\ kA = [email |-> <<>>, url |-> <<>>, full_scan |-> FALSE]
    /\ kB = [email |-> <<>>, url |-> <<>>, full_scan |-> FALSE]
    /\ kKeyA = <<>> /\ kKeyB = <<>>

\* Stripe Post-Checkout Session (app.py:175-235) for checkout e-mail `co`;
\* t1, t2 are the results of the two get_user_tier calls
PostCheckout(st, db, co, t1, t2) ==
    LET tier == IF t1 = "Free" THEN t2 ELSE t1
        sv == db[co]
        st1 == [st EXCEPT !.user_email = co, !.email = co, !.tier = tier]
        st2 == IF sv.kind # "none"
               THEN [st1 EXCEPT !.results = sv, !.url = sv.url, !.html = sv.html]
               ELSE [st1 EXCEPT !.menu_index = 0]
    IN  [st2 EXCEPT !.trigger_scan_after_upgrade = (tier \in PaidTiers /\ st2.url # <<>>)]

\* Get Started page (app.py:305-347): render_email_url_form and the
\* handling of a submission
GetStartedPage(st, ev) ==
    IF ev.type # "form" THEN st
    ELSE LET st1 == [st EXCEPT !.full_scan = ev.full]
             st2 == IF ev.email # <<>>
                    THEN [st1 EXCEPT !.user_email = ev.email, !.email = ev.email]
                    ELSE st1
             st3 == IF ev.url # <<>> THEN [st2 EXCEPT !.url = ev.url] ELSE st2
             who == IF ev.email # <<>> THEN ev.email ELSE AnonymousEmail
         IN  IF ev.url # <<>>
             THEN [st3 EXCEPT !.email = who, !.user_email = who, !.url = ev.url,
                              !.submitted = TRUE, !.menu_index = RESULTS_IDX]
             ELSE st3

\* app.py:245-347: the update_menu callback, the sidebar (navigation,
\* Refresh Tier, diagnostics buttons) and the Get Started page; t3 is the
\* result of the Refresh Tier button's get_user_tier call.  `crash` is the
\* exception st.selectbox raises for an index outside menu_options.
TopOfScript(st, ev, t3) ==
    LET st1 == IF ev.type = "menu" THEN [st EXCEPT !.menu_index = ev.choice] ELSE st
        count == MenuOptionCount(st1.tier)
        crash == st1.menu_index >= count
        menu == st1.menu_index
        st2 == IF ev.type = "refresh_tier_button" /\ st1.user_email # <<>>
               THEN [st1 EXCEPT !.tier = t3] ELSE st1
        st3 == CASE ev.type = "reset_submitted" -> [st2 EXCEPT !.submitted = FALSE]
                 [] ev.type = "clear_results" -> [st2 EXCEPT !.results = NoResults]
                 [] ev.type = "clear_cache" -> [st2 EXCEPT !.scan_cache = EmptyCache]
                 [] OTHER -> st2
        st4 == IF menu = GET_STARTED_IDX THEN GetStartedPage(st3, ev) ELSE st3
    IN  [crash |-> crash,
         st |-> IF crash THEN st1 ELSE st4,
         ui |-> [options |-> IF crash THEN 0 ELSE count,
                 form |-> (~crash /\ menu = GET_STARTED_IDX),
                 retry |-> {}, clicked |-> ev.type, outcome |-> "none",
                 menu |-> IF crash THEN 0 ELSE menu, page |-> "none", auto |-> "none"]]

\* the state a session is in once its first page load has run the script
Loaded == TopOfScript(SessionDefaults, Rerun, "Free")

\* rows the results table of scans.db may hold from earlier days
OldSaved ==
    [kind |-> "report", v |-> 1, html |-> "page", url |-> HttpsPrefix \o <<"a">>, exports |-> TRUE]

AppInit ==
    /\ ss = [s \in Sessions |-> Loaded.st]
    /\ ui = [s \in Sessions |-> Loaded.ui]
    /\ pc = [s \in Sessions |-> "idle"]
    /\ loc = [s \in Sessions |-> NoLocals]
    /\ scans = [e \in AllEmails |-> NoRows]
    /\ saved \in {[e \in AllEmails |-> NoResults],
                  [e \in AllEmails |-> IF e = <<"u">> THEN OldSaved ELSE NoResults]}
    /\ runs = 0
    /\ calls = [fetch |-> 0, analyze |-> 0]

\* the run of session s starts (or restarts) from session state st0, while
\* fewer than `limit` runs were started
StartRunWithin(limit, s, st0, ev, t3) ==
    LET top == TopOfScript(st0, ev, t3)
    IN  /\ runs < limit
        /\ runs' = runs + 1
        /\ ss' = [ss EXCEPT ![s] = top.st]
        /\ ui' = [ui EXCEPT ![s] = top.ui]
        /\ pc' = [pc EXCEPT ![s] = IF top.crash THEN "idle" ELSE "auto"]
        /\ loc' = [loc EXCEPT ![s] = NoLocals]
        /\ UNCHANGED <<scans, saved, calls>>
        /\ UNCHANGED <<normVars, chunkVars, fetchVars, analyzeVars, tierVars, simVars, sliceVars, keyVars>>

StartRun(s, st0, ev, t3) == StartRunWithin(MaxRuns, s, st0, ev, t3)

\* the browser loads the page after the Stripe redirect (?session_id=...):
\* a new session, whose first run executes the post-checkout block
LoadAfterCheckout(s, co, t1, t2) ==
    /\ pc[s] = "idle"
    /\ t1 # "Free" => t2 = "Free"
    /\ StartRun(s, PostCheckout(SessionDefaults, saved, co, t1, t2), Rerun, "Free")

\* a widget event reruns the script of an idle session
RunScript(s, ev, t3) ==
    /\ pc[s] = "idle"
    /\ EventPossible(ui[s], ev)
    /\ ev.type # "refresh_tier_button" => t3 = "Free"
    /\ StartRun(s, ss[s], ev, t3)

\* a widget event arrives while the script runs: Streamlit abandons the run
\* at its next st.* call and starts the script again
Interrupt(s, ev, t3) ==
    /\ pc[s] \in {"auto", "scan", "tail"}
    /\ EventPossible(ui[s], ev)
    /\ ev.type # "refresh_tier_button" => t3 = "Free"
    /\ StartRun(s, ss[s], ev, t3)

\* the guard of the auto-scan block (app.py:352)
AutoScanDue(st) == st.trigger_scan_after_upgrade /\ st.tier \in PaidTiers

\* a bug variant of the pipeline's `finally`: the flag is left as it is
AutoScanFinallyMissing(st) == st

\* `finally: st.session_state["trigger_scan_after_upgrade"] = False`
\* (app.py:397-398)
AutoScanFinally(st) == [st EXCEPT !.trigger_scan_after_upgrade = FALSE]

\* the events of a user who only navigates: the sidebar menu, the Refresh
\* Tier button, a plain rerun
NavEvents == {e \in Events : e.type \in {"menu", "refresh_tier_button", "rerun"}}

\* LoadAfterCheckout and RunScript for the navigation specification, which
\* follows a session over MaxNavRuns script runs
NavLoadAfterCheckout(s, co, t1, t2) ==
    /\ pc[s] = "idle"
    /\ t1 # "Free" => t2 = "Free"
    /\ StartRunWithin(MaxNavRuns, s, PostCheckout(SessionDefaults, saved, co, t1, t2), Rerun, "Free")

NavRunScript(s, ev, t3) ==
    /\ pc[s] = "idle"
    /\ EventPossible(ui[s], ev)
    /\ ev.type # "refresh_tier_button" => t3 = "Free"
    /\ StartRunWithin(MaxNavRuns, s, ss[s], ev, t3)

\* Auto-scan post-upgrade (app.py:352-376 and 399-401), up to the start of
\* its pipeline
AutoScanBlock(s) ==
    LET st == ss[s]
        email == st.email
        url == st.url
        normalized_url == IF url # <<>> THEN SafeNormalize(Strip(url)) ELSE <<>>
        cache_key == CacheKey(email, normalized_url, FALSE)
    IN  /\ pc[s] = "auto"
        /\ UNCHANGED <<saved, runs, calls>>
        /\ UNCHANGED <<normVars, chunkVars, fetchVars, analyzeVars, tierVars, simVars, sliceVars, keyVars>>
        /\ IF ~AutoScanDue(st)
           THEN /\ pc' = [pc EXCEPT ![s] = "scan"]
                /\ UNCHANGED <<ss, ui, loc, scans>>
           ELSE IF st.results.kind # "none" /\ st.results.url # <<>>
           THEN /\ ss' = [ss EXCEPT ![s].menu_index = RESULTS_IDX,
                                    ![s].trigger_scan_after_upgrade = FALSE]
                /\ ui' = [ui EXCEPT ![s].auto = "existing_results"]
                /\ pc' = [pc EXCEPT ![s] = "scan"]
                /\ UNCHANGED <<loc, scans>>
           ELSE IF url # <<>> /\ cache_key \in DOMAIN st.scan_cache
           THEN /\ ss' = [ss EXCEPT ![s].results = st.scan_cache[cache_key],
                                    ![s].html = st.scan_cache[cache_key].html,
                                    ![s].menu_index = RESULTS_IDX,
                                    ![s].trigger_scan_after_upgrade = FALSE]
                /\ ui' = [ui EXCEPT ![s].auto = "cache_hit"]
                /\ pc' = [pc EXCEPT ![s] = "scan"]
                /\ UNCHANGED <<loc, scans>>
           ELSE IF url # <<>>
           THEN /\ scans' = IncrementScanCount(scans, email)
                /\ loc' = [loc EXCEPT ![s] = [email |-> email, url |-> url,
                               normalized_url |-> normalized_url, full_scan |-> FALSE,
                               cache_key |-> cache_key, html |-> "none"]]
                /\ ui' = [ui EXCEPT ![s].auto = "pipeline"]
                /\ pc' = [pc EXCEPT ![s] = "auto_fetch"]
                /\ UNCHANGED ss
           ELSE /\ ss' = [ss EXCEPT ![s].trigger_scan_after_upgrade = FALSE]
                /\ ui' = [ui EXCEPT ![s].auto = "no_url"]
                /\ pc' = [pc EXCEPT ![s] = "scan"]
                /\ UNCHANGED <<loc, scans>>

FetchFailed == "failed"
\* fetch_page_content(target_url) (utils.py:130-156): "raised" when its
\* normalize_url call raises, else what the two strategies produce
FetchOutcomes(target_url) ==
    IF NormalizeUrl(target_url).ok THEN {FetchFailed} \cup Htmls ELSE {"raised"}

\* analyze_accessibility(html, abbreviated) as the script sees it: a merged
\* report, the error dict of a failed model call, or an exception once the
\* backoff retries are used up
AnalysisRaised == [kind |-> "raised", v |-> 0, html |-> "none", url |-> <<>>, exports |-> FALSE]
AnalyzeOutcomes == {AnalysisRaised, ErrorDict} \cup {ReportOf(v) : v \in ReportVersions}

\* app.py:377-398, the fetch of the auto-scan
AutoFetch(s, r) ==
    /\ pc[s] = "auto_fetch"
    /\ r \in FetchOutcomes(loc[s].normalized_url)
    /\ calls' = [calls EXCEPT !.fetch = @ + 1]
    /\ IF r \in Htmls
       THEN /\ ss' = [ss EXCEPT ![s].html = r]
            /\ loc' = [loc EXCEPT ![s].html = r]
            /\ pc' = [pc EXCEPT ![s] = "auto_analyze"]
            /\ UNCHANGED ui
       ELSE /\ ss' = [ss EXCEPT ![s] = AutoScanFinally(@)]
            /\ ui' = [ui EXCEPT ![s].auto = IF r = FetchFailed THEN "fetch_failed" ELSE "raised"]
            /\ loc' = [loc EXCEPT ![s] = NoLocals]
            /\ pc' = [pc EXCEPT ![s] = "scan"]
    /\ UNCHANGED <<scans, saved, runs>>
    /\ UNCHANGED <<normVars, chunkVars, fetchVars, analyzeVars, tierVars, simVars, sliceVars, keyVars>>

\* `st.session_state.scan_cache[cache_key] = results` (app.py:388)
AutoStore(cache, key, results) == CachePut(cache, key, results)

\* app.py:382-398, analysis, exports and store of the auto-scan
AutoAnalyze(s, a) ==
    /\ pc[s] = "auto_analyze"
    /\ a \in AnalyzeOutcomes
    /\ calls' = [calls EXCEPT !.analyze = @ + 1]
    /\ IF a = AnalysisRaised
       THEN /\ ss' = [ss EXCEPT ![s] = AutoScanFinally(@)]
            /\ ui' = [ui EXCEPT ![s].auto = "raised"]
            /\ UNCHANGED saved
       ELSE LET results == [a EXCEPT !.html = loc[s].html,
                                     !.url = loc[s].normalized_url, !.exports = TRUE]
            IN  /\ ss' = [ss EXCEPT ![s] = AutoScanFinally(
                            [@ EXCEPT !.scan_cache = AutoStore(@, loc[s].cache_key, results),
                                      !.results = results])]
                /\ ui' = [ui EXCEPT ![s].auto = "stored"]
                /\ saved' = SaveResultsToDb(saved, loc[s].email, results)
    /\ loc' = [loc EXCEPT ![s] = NoLocals]
    /\ pc' = [pc EXCEPT ![s] = "scan"]
    /\ UNCHANGED <<scans, runs>>
    /\ UNCHANGED <<normVars, chunkVars, fetchVars, analyzeVars, tierVars, simVars, sliceVars, keyVars>>

\* `if st.session_state.get("submitted") and st.session_state.get("url")`
ScanRequested(st) == st.submitted /\ st.url # <<>>

\* the consolidated scan block is passed over (app.py:406)
ScanSkip(s) ==
    /\ pc[s] = "scan"
    /\ ~ScanRequested(ss[s])
    /\ pc' = [pc EXCEPT ![s] = "tail"]
    /\ UNCHANGED <<ss, ui, loc, scans, saved, runs, calls>>
    /\ UNCHANGED <<normVars, chunkVars, fetchVars, analyzeVars, tierVars, simVars, sliceVars, keyVars>>

\* `st.button("Retry", key=k)` followed by st.stop(): true in the rerun
\* that the click on a rendered button starts
RetryClicked(u, k) == u.clicked = k

\* a bug variant of the depth decision: the checkbox alone decides
FullScanFromCheckbox(tier, st) == st.full_scan

\* `bool(st.session_state.get("full_scan", False)) if tier in [...] else False`
FullScan(tier, st) == IF tier \in PaidTiers THEN st.full_scan ELSE FALSE

\* `abbreviated=not full_scan` (app.py:454)
Abbreviated(l) == ~l.full_scan

\* Consolidated Scan Logic (app.py:406-440), up to the start of the
\* pipeline; tier is the result of get_user_tier(email)
ScanBlock(s, tier) ==
    LET st == ss[s]
        email == st.user_email
        url == st.url
        normalized_url == SafeNormalize(Strip(url))
        limited == tier = "Free" /\ CheckScanLimit(scans, email) >= 1
        shown == IF limited THEN ui[s].retry \cup {"retry_limit"} ELSE ui[s].retry
        full_scan == FullScan(tier, st)
        cache_key == CacheKey(email, normalized_url, full_scan)
    IN  /\ pc[s] = "scan"
        /\ ScanRequested(st)
        /\ UNCHANGED <<saved, runs, calls>>
        /\ UNCHANGED <<normVars, chunkVars, fetchVars, analyzeVars, tierVars, simVars, sliceVars, keyVars>>
        /\ IF normalized_url = <<>>
           THEN /\ ss' = [ss EXCEPT ![s].tier = tier, ![s].submitted = FALSE]
                /\ ui' = [ui EXCEPT ![s].outcome = "invalid_url"]
                /\ pc' = [pc EXCEPT ![s] = "idle"]
                /\ UNCHANGED <<loc, scans>>
           ELSE IF limited /\ RetryClicked(ui[s], "retry_limit")
           THEN /\ ss' = [ss EXCEPT ![s].tier = tier]
                /\ ui' = [ui EXCEPT ![s].retry = shown, ![s].outcome = "limit_stop"]
                /\ pc' = [pc EXCEPT ![s] = "idle"]
                /\ UNCHANGED <<loc, scans>>
           ELSE IF cache_key \in DOMAIN st.scan_cache
           THEN /\ ss' = [ss EXCEPT ![s].tier = tier,
                                    ![s].results = st.scan_cache[cache_key],
                                    ![s].html = st.scan_cache[cache_key].html,
                                    ![s].menu_index = RESULTS_IDX,
                                    ![s].submitted = FALSE]
                /\ ui' = [ui EXCEPT ![s].retry = shown, ![s].outcome = "cache_hit"]
                /\ pc' = [pc EXCEPT ![s] = "tail"]
                /\ UNCHANGED <<loc, scans>>
           ELSE /\ ss' = [ss EXCEPT ![s].tier = tier]
                /\ ui' = [ui EXCEPT ![s].retry = shown, ![s].outcome = "cache_miss"]
                /\ scans' = IncrementScanCount(scans, email)
                /\ loc' = [loc EXCEPT ![s] = [email |-> email, url |-> url,
                               normalized_url |-> normalized_url, full_scan |-> full_scan,
                               cache_key |-> cache_key, html |-> "none"]]
                /\ pc' = [pc EXCEPT ![s] = "fetch"]

\* the `except Exception` handler of the pipeline (app.py:482-486): the
\* run goes on to the tail unless its Retry button was the one clicked
ExceptHandler(s, shown, outcome) ==
    /\ ui' = [ui EXCEPT ![s].retry = shown \cup {"retry_url_error"}, ![s].outcome = outcome]
    /\ pc' = [pc EXCEPT ![s] = IF RetryClicked(ui[s], "retry_url_error") THEN "idle" ELSE "tail"]
    /\ loc' = [loc EXCEPT ![s] = NoLocals]

\* app.py:441-453: the second safe_normalize and the fetch.  A failed
\* fetch has no "html" key, so `result["html"]` raises into the handler.
Fetch(s, r) ==
    LET normalized_url == SafeNormalize(Strip(loc[s].url))
    IN  /\ pc[s] = "fetch"
        /\ r \in FetchOutcomes(normalized_url)
        /\ calls' = [calls EXCEPT !.fetch = @ + 1]
        /\ UNCHANGED <<scans, saved, runs>>
        /\ UNCHANGED <<normVars, chunkVars, fetchVars, analyzeVars, tierVars, simVars, sliceVars, keyVars>>
        /\ IF r \in Htmls
           THEN /\ ss' = [ss EXCEPT ![s].html = r]
                /\ loc' = [loc EXCEPT ![s].html = r, ![s].normalized_url = normalized_url]
                /\ pc' = [pc EXCEPT ![s] = "analyze"]
                /\ UNCHANGED ui
           ELSE IF r = FetchFailed /\ RetryClicked(ui[s], "retry_fetch")
           THEN /\ ui' = [ui EXCEPT ![s].retry = @ \cup {"retry_fetch"},
                                    ![s].outcome = "fetch_failed"]
                /\ pc' = [pc EXCEPT ![s] = "idle"]
                /\ loc' = [loc EXCEPT ![s] = NoLocals]
                /\ UNCHANGED ss
           ELSE /\ ExceptHandler(s, IF r = FetchFailed THEN ui[s].retry \cup {"retry_fetch"}
                                    ELSE ui[s].retry, "fetch_failed")
                /\ UNCHANGED ss

\* `st.session_state.scan_cache[cache_key] = results` (app.py:476)
Store(cache, key, results) == CachePut(cache, key, results)

\* app.py:454-481: analysis, exports, store
Analyze(s, a) ==
    /\ pc[s] = "analyze"
    /\ a \in AnalyzeOutcomes
    /\ calls' = [calls EXCEPT !.analyze = @ + 1]
    /\ UNCHANGED <<scans, runs>>
    /\ UNCHANGED <<normVars, chunkVars, fetchVars, analyzeVars, tierVars, simVars, sliceVars, keyVars>>
    /\ IF a = AnalysisRaised
       THEN /\ ExceptHandler(s, ui[s].retry, "analysis_raised")
            /\ UNCHANGED <<ss, saved>>
       ELSE LET shown == IF a.kind = "error" THEN ui[s].retry \cup {"retry_analysis"}
                         ELSE ui[s].retry
                results == [a EXCEPT !.html = loc[s].html, !.url = loc[s].normalized_url]
                exported == [results EXCEPT !.exports = TRUE]
            IN  IF a.kind = "error" /\ RetryClicked(ui[s], "retry_analysis")
                THEN /\ ss' = [ss EXCEPT ![s].results = results]
                     /\ ui' = [ui EXCEPT ![s].retry = shown, ![s].outcome = "analysis_error"]
                     /\ pc' = [pc EXCEPT ![s] = "idle"]
                     /\ loc' = [loc EXCEPT ![s] = NoLocals]
                     /\ UNCHANGED saved
                ELSE /\ ss' = [ss EXCEPT
                                 ![s].results = exported,
                                 ![s].scan_cache = Store(@, loc[s].cache_key, exported),
                                 ![s].menu_index = RESULTS_IDX,
                                 ![s].submitted = FALSE]
                     /\ saved' = SaveResultsToDb(saved, loc[s].email, exported)
                     /\ ui' = [ui EXCEPT ![s].retry = shown,
                                         ![s].outcome = IF a.kind = "error"
                                                        THEN "stored_error" ELSE "stored"]
                     /\ pc' = [pc EXCEPT ![s] = "tail"]
                     /\ loc' = [loc EXCEPT ![s] = NoLocals]

PERSONA_IDX == 2
EXPORTS_IDX == 3

\* render_export_buttons(results) (ui.py:136-155)
RenderExportButtons(st) ==
    IF ~st.results.exports THEN "exports_unavailable"
    ELSE IF st.tier \notin PaidTiers THEN "exports_locked"
    ELSE "export_buttons"

\* Results / Persona / Exports (app.py:491-549): the page rendered for the
\* sidebar selection `menu`
PageRendered(menu, st) ==
    IF menu = RESULTS_IDX /\ st.menu_index = RESULTS_IDX
    THEN IF st.results.kind # "none" THEN "results" ELSE "no_results"
    ELSE IF menu = PERSONA_IDX
    THEN IF st.results.kind # "none" /\ st.results.html # "none"
         THEN IF st.tier \in PaidTiers THEN "paid_simulation" ELSE "demo_simulation"
         ELSE "no_scan"
    ELSE IF menu = EXPORTS_IDX
    THEN IF st.results.kind # "none" /\ st.tier \in PaidTiers
         THEN RenderExportButtons(st)
         ELSE "exports_locked"
    ELSE "none"

\* the pages (app.py:491-549) and the Auto-Switch (app.py:554-572)
EndOfScript(s) ==
    LET st == ss[s]
        st1 == IF ScanRequested(st) /\ st.menu_index = GET_STARTED_IDX
               THEN [st EXCEPT !.menu_index = RESULTS_IDX] ELSE st
        st2 == IF st1.trigger_scan_after_upgrade /\ st1.url # <<>> /\ st1.menu_index # RESULTS_IDX
               THEN [st1 EXCEPT !.menu_index = RESULTS_IDX, !.trigger_scan_after_upgrade = FALSE]
               ELSE st1
    IN  /\ pc[s] = "tail"
        /\ ss' = [ss EXCEPT ![s] = st2]
        /\ ui' = [ui EXCEPT ![s].page = PageRendered(ui[s].menu, st)]
        /\ pc' = [pc EXCEPT ![s] = "idle"]
        /\ UNCHANGED <<loc, scans, saved, runs, calls>>
        /\ UNCHANGED <<normVars, chunkVars, fetchVars, analyzeVars, tierVars, simVars, sliceVars, keyVars>>

AppIdle ==
    /\ ss = [s \in Sessions |-> SessionDefaults]
    /\ ui = [s \in Sessions |-> NoUi]
    /\ pc = [s \in Sessions |-> "off"]
    /\ loc = [s \in Sessions |-> NoLocals]
    /\ scans = [e \in AllEmails |-> NoRows]
    /\ saved = [e \in AllEmails |-> NoResults]
    /\ runs = 0
    /\ calls = [fetch |-> 0, analyze |-> 0]

(***************************************************************************)
(* Specifications                                                          *)
(***************************************************************************)
NextNorm == NormalizeOnce \/ NormalizeTwice
InitNorm == NormInit /\ ChunkIdle /\ AppIdle /\ FetchIdle /\ AnalyzeIdle /\ TierIdle /\ SimIdle /\ SliceIdle /\ KeyIdle
SpecNorm == InitNorm /\ [][NextNorm]_vars

NextChunk == ChunkStep \/ ChunkReturn
InitChunk == ChunkInit /\ NormIdle /\ AppIdle /\ FetchIdle /\ AnalyzeIdle /\ TierIdle /\ SimIdle /\ SliceIdle /\ KeyIdle
SpecChunk == InitChunk /\ [][NextChunk]_vars

\* every step a session's script can take
SessionStep(s) ==
    \/ \E co \in AllEmails, t1, t2 \in ResolvedTiers : LoadAfterCheckout(s, co, t1, t2)
    \/ \E ev \in Events, t3 \in ResolvedTiers : RunScript(s, ev, t3)
    \/ \E ev \in Events, t3 \in ResolvedTiers : Interrupt(s, ev, t3)
    \/ AutoScanBlock(s)
    \/ \E r \in {"raised", FetchFailed} \cup Htmls : AutoFetch(s, r)
    \/ \E a \in AnalyzeOutcomes : AutoAnalyze(s, a)
    \/ ScanSkip(s)
    \/ \E tier \in ResolvedTiers : ScanBlock(s, tier)
    \/ \E r \in {"raised", FetchFailed} \cup Htmls : Fetch(s, r)
    \/ \E a \in AnalyzeOutcomes : Analyze(s, a)
    \/ EndOfScript(s)

\* one browser session, every widget event
Next == SessionStep("s1")
NextFetch ==
    \/ FetchNormalize
    \/ \E ok \in BOOLEAN, html \in Htmls : FetchPlaywright(ok, html)
    \/ \E ok \in BOOLEAN, html \in Htmls : FetchRequests(ok, html)
InitFetch == FetchInit /\ NormIdle /\ ChunkIdle /\ AppIdle /\ AnalyzeIdle /\ TierIdle /\ SimIdle /\ SliceIdle /\ KeyIdle
SpecFetch == InitFetch /\ [][NextFetch]_vars

NextAnalyze ==
    \/ \E o \in CallOutcomes : ModelCall(o)
    \/ MergeStep
InitAnalyze == AnalyzeInit /\ NormIdle /\ ChunkIdle /\ AppIdle /\ FetchIdle /\ TierIdle /\ SimIdle /\ SliceIdle /\ KeyIdle
SpecAnalyze == InitAnalyze /\ [][NextAnalyze]_vars

NextTier == \E answer \in StripeAnswers : TierAttempt(answer)
InitTier == TierInit /\ NormIdle /\ ChunkIdle /\ AppIdle /\ FetchIdle /\ AnalyzeIdle /\ SimIdle /\ SliceIdle /\ KeyIdle
SpecTier == InitTier /\ [][NextTier]_vars

NextSim ==
    \/ SimPrepare
    \/ SimCancelRequest
    \/ \E ok \in BOOLEAN : SimIteration(ok)
    \/ \E ok \in BOOLEAN : SimSummarize(ok)
InitSim == SimInit /\ NormIdle /\ ChunkIdle /\ AppIdle /\ FetchIdle /\ AnalyzeIdle /\ TierIdle /\ SliceIdle /\ KeyIdle
SpecSim == InitSim /\ [][NextSim]_vars

NextSlice == BuildChunkList
InitSlice == SliceInit /\ NormIdle /\ ChunkIdle /\ AppIdle /\ FetchIdle /\ AnalyzeIdle /\ TierIdle /\ SimIdle /\ KeyIdle
SpecSlice == InitSlice /\ [][NextSlice]_vars

NextKey == RenderKeys
InitKey == KeyInit /\ NormIdle /\ ChunkIdle /\ AppIdle /\ FetchIdle /\ AnalyzeIdle /\ TierIdle /\ SimIdle /\ SliceIdle
SpecKey == InitKey /\ [][NextKey]_vars

Init == AppInit /\ NormIdle /\ ChunkIdle /\ FetchIdle /\ AnalyzeIdle /\ TierIdle /\ SimIdle /\ SliceIdle /\ KeyIdle
Spec == Init /\ [][Next]_vars

\* the steps of a session whose user only navigates
NavStep(s) ==
    \/ \E co \in AllEmails, t1, t2 \in ResolvedTiers : NavLoadAfterCheckout(s, co, t1, t2)
    \/ \E ev \in NavEvents, t3 \in ResolvedTiers : NavRunScript(s, ev, t3)
    \/ AutoScanBlock(s)
    \/ ScanSkip(s)
    \/ EndOfScript(s)

\* one browser session, navigation and tier changes only
NextNav == NavStep("s1")
SpecNav == Init /\ [][NextNav]_vars

\* the submissions of the two-session specification: a signed-in user and
\* URLs that normalize
SubmitEvents ==
    {e \in Events : /\ e.type = "form"
                     /\ e.email # <<>>
                     /\ ~IsBlank(e.url) /\ NormalizeUrl(e.url).ok}

\* the steps of a session whose user only submits the form
SubmitStep(s) ==
    \/ \E ev \in SubmitEvents : RunScript(s, ev, "Free")
    \/ AutoScanBlock(s)
    \/ ScanSkip(s)
    \/ \E tier \in {"Free", "Pro"} : ScanBlock(s, tier)
    \/ \E r \in {FetchFailed} \cup Htmls : Fetch(s, r)
    \/ \E a \in AnalyzeOutcomes \ {AnalysisRaised} : Analyze(s, a)
    \/ EndOfScript(s)

\* two browser sessions of one server process, each submitting scans
NextTwoSessions == \E s \in Sessions : SubmitStep(s)
SpecTwoSessions == Init /\ [][NextTwoSessions]_vars

(***************************************************************************)
(* Properties of normalize_url (SpecNorm)                                  *)
(***************************************************************************)
\* C5: normalize_url is idempotent: when normalize_url(s) succeeds, applying
\* normalize_url to its result succeeds too and returns the same string.
C5_IdempotentNormalization ==
    nPc = "twice" => nOut2 = nOut

\* C6: normalize_url returns "https://" + input when the input has no scheme
\* and the input itself when it has one; whatever it returns has a scheme and
\* a host that is not empty, and an empty or whitespace-only input, or one
\* with a scheme and no authority, raises ValueError instead.
C6_NormalizeResultRule ==
    nPc = "once" =>
        /\ nOut.ok =>
            /\ nOut.val = IF UrlParse(nIn).scheme = <<>> THEN HttpsPrefix \o nIn ELSE nIn
            /\ UrlParse(nOut.val).scheme # <<>>
            /\ ~IsBlank(UrlParse(nOut.val).netloc)
        /\ IsBlank(nIn) => ~nOut.ok
        /\ (UrlParse(nIn).scheme # <<>> /\ UrlParse(nIn).netloc = <<>>) => ~nOut.ok

(***************************************************************************)
(* Properties of split_html_safely (SpecChunk)                             *)
(***************************************************************************)
RECURSIVE Concat(_)
Concat(parts) == IF parts = <<>> THEN <<>> ELSE Head(parts) \o Concat(Tail(parts))

\* number of characters in the first k chunks
Offset(parts, k) == Len(Concat(SubSeq(parts, 1, k)))

\* cumulative tag depth of the first n characters: count of '<' minus count of '>'
Depth(html, n) ==
    Cardinality({i \in 1..n : html[i] = "<"}) - Cardinality({i \in 1..n : html[i] = ">"})

\* C8: every boundary between two consecutive chunks lies at a position of
\* the input where the cumulative tag depth is 0.
C8_TagSafeBoundaries ==
    \A k \in 1..(Len(chunks) - 1) : Depth(cHtml, Offset(chunks, k)) = 0

C8_Witness ==
    /\ cPc = "done"
    /\ Len(chunks) >= 2
    /\ \E n \in 1..Len(cHtml) : Depth(cHtml, n) # 0

\* C9: the chunks returned, concatenated in order, are the input string, and
\* none of them is empty.
C9_LosslessChunking ==
    cPc = "done" =>
        /\ Concat(chunks) = cHtml
        /\ \A k \in 1..Len(chunks) : chunks[k] # <<>>

C9_Witness ==
    /\ cPc = "done"
    /\ Len(chunks) >= 2
    /\ Len(chunks[Len(chunks)]) < cSize

\* C10 as claimed: every chunk returned has length <= chunk_size.
C10_ChunkSizeCeiling ==
    cPc = "done" => \A k \in 1..Len(chunks) : Len(chunks[k]) <= cSize

\* C10 as amended: a chunk grows past chunk_size only while the cumulative
\* tag depth is not 0: from its chunk_size-th character to its last but one,
\* every position of a chunk has a non-zero depth.
C10_CeilingUnlessInsideTag ==
    cPc = "done" =>
        \A k \in 1..Len(chunks) :
            \A j \in cSize..(Len(chunks[k]) - 1) :
                Depth(cHtml, Offset(chunks, k - 1) + j) # 0

C10_Witness ==
    /\ cPc = "done"
    /\ \E k \in 1..Len(chunks) : Len(chunks[k]) > cSize
    /\ \E k \in 1..Len(chunks) : Len(chunks[k]) = cSize

(***************************************************************************)
(* Properties of the scan cache (Spec, SpecTwoSessions)                    *)
(***************************************************************************)
\* C1: a report is written to the scan cache only after both the fetch and
\* the analysis succeeded: no value of any session's scan cache is the
\* error dict of a failed analysis.
C1_CacheHoldsSuccessfulReportsOnly ==
    \A s \in Sessions : \A k \in DOMAIN ss[s].scan_cache :
        ss[s].scan_cache[k].kind = "report"

\* the position of a session whose pipeline (fetch, analyze) is running
InPipeline(s) == pc[s] \in {"fetch", "analyze", "auto_fetch", "auto_analyze"}

\* C2: concurrent requests for one cache key run the pipeline at most once:
\* no two sessions are inside the pipeline for the same key at the same time.
C2_SingleFlight ==
    \A s \in Sessions, t \in Sessions :
        (s # t /\ InPipeline(s) /\ InPipeline(t)) => loc[s].cache_key # loc[t].cache_key

\* C3: once a key has an entry in a scan cache that was not cleared, a later
\* request with that key starts no pipeline run, and a request served from
\* the cache shows the report stored under its key.
C3_AtMostOnceComputePerKey ==
    [][\A s \in Sessions :
          /\ (pc[s] = "scan" /\ pc'[s] = "fetch") =>
                \A t \in Sessions : loc'[s].cache_key \notin DOMAIN ss[t].scan_cache
          /\ (pc[s] = "scan" /\ pc'[s] = "tail" /\ ui'[s].outcome = "cache_hit") =>
                \E k \in DOMAIN ss[s].scan_cache : ss'[s].results = ss[s].scan_cache[k]]_vars

\* C4: two requests of one user in one mode whose raw URLs normalize_url
\* maps to the same string use the same cache key.
C4_CacheKeyEquivalence ==
    \A s \in Sessions, t \in Sessions :
        ( /\ InPipeline(s) /\ InPipeline(t)
          /\ loc[s].email = loc[t].email
          /\ loc[s].full_scan = loc[t].full_scan
          /\ NormalizeUrl(loc[s].url).ok
          /\ NormalizeUrl(loc[s].url) = NormalizeUrl(loc[t].url) )
        => loc[s].cache_key = loc[t].cache_key

\* a URL the scan rejects: empty, whitespace only, or without a host
InvalidInput(url) == IsBlank(url) \/ ~NormalizeUrl(url).ok

\* C7: when the consolidated scan block runs for a session whose URL is
\* empty, whitespace only or without a host, the run starts no pipeline:
\* fetch_page_content and analyze_accessibility are not called, the scan
\* cache and the scan counters keep their values, and a submitted URL ends
\* the run as an invalid URL with the submitted flag lowered.
C7_InvalidUrlRejected ==
    [][\A s \in Sessions :
          (pc[s] = "scan" /\ pc'[s] # "scan" /\ runs' = runs /\ InvalidInput(ss[s].url)) =>
              /\ pc'[s] \in {"idle", "tail"}
              /\ calls' = calls
              /\ scans' = scans
              /\ saved' = saved
              /\ ss'[s].scan_cache = ss[s].scan_cache
              /\ ss'[s].results = ss[s].results
              /\ ScanRequested(ss[s]) =>
                    /\ pc'[s] = "idle"
                    /\ ui'[s].outcome = "invalid_url"
                    /\ ~ss'[s].submitted]_vars

C7_Witness ==
    \E s \in Sessions :
        /\ pc[s] = "idle"
        /\ ui[s].outcome = "invalid_url"
        /\ ss[s].url \in {<<" ">>, <<"a", ":">>}
        /\ ~ss[s].submitted
        /\ CheckScanLimit(scans, ss[s].user_email) = 0

(***************************************************************************)
(* Properties of fetch_page_content (SpecFetch)                            *)
(***************************************************************************)
\* C14: fetch_page_content tries the browser strategy first and the plain
\* HTTP GET only after the browser strategy raised, each at most once; it
\* returns success with HTML when either strategy succeeded, the failure
\* value with a reason exactly when both failed, and no exception of a
\* strategy leaves the call.
C14_FetchFallback ==
    /\ Len(fLog) <= 2
    /\ Len(fLog) >= 1 => fLog[1].strategy = "playwright"
    /\ Len(fLog) = 2 => (~fLog[1].ok /\ fLog[2].strategy = "requests")
    /\ fPc = "requests" => (Len(fLog) = 1 /\ ~fLog[1].ok)
    /\ (fPc = "done" /\ fLog # <<>>) =>
          /\ fOut.kind = "success" <=> \E i \in 1..Len(fLog) : fLog[i].ok
          /\ fOut.kind = "success" => fOut.html \in Htmls
          /\ fOut.kind = "failed" <=> (Len(fLog) = 2 /\ \A i \in 1..2 : ~fLog[i].ok)
          /\ fOut.kind = "failed" => fOut.error # <<>>
          /\ fOut.kind \in {"success", "failed"}

C14_Witness ==
    /\ fPc = "done"
    /\ Len(fLog) = 2
    /\ ~fLog[1].ok /\ fLog[2].ok
    /\ fOut.kind = "success"

(***************************************************************************)
(* Properties of analyze_accessibility (SpecAnalyze)                       *)
(***************************************************************************)
RECURSIVE SumIssueCounts(_)
SumIssueCounts(rs) == IF rs = <<>> THEN 0 ELSE Len(Head(rs).issues) + SumIssueCounts(Tail(rs))

Occurrences(list, x) == Cardinality({j \in 1..Len(list) : list[j] = x})

\* C11: the report holds as many issues as the per-chunk results together,
\* plus one when the static missing-alt check fired, and every issue of
\* every per-chunk result occurs in it exactly once.
C11_MergeCompleteness ==
    aOut.kind = "report" =>
        /\ Len(aOut.issues) =
              SumIssueCounts(aResults) + (IF MissingAlt(aHtml) > 0 THEN 1 ELSE 0)
        /\ \A i \in 1..Len(aResults) : \A k \in 1..Len(aResults[i].issues) :
              Occurrences(aOut.issues, aResults[i].issues[k]) = 1

C11_Witness ==
    /\ aOut.kind = "report"
    /\ Len(aResults) = 2
    /\ \A i \in 1..2 : Len(aResults[i].issues) = 2
    /\ MissingAlt(aHtml) > 0
    /\ Len(aOut.issues) = 5

\* C12: the score of every report lies in [0, 100]; the score is
\* score_sum / parts.
C12_ScoreBounds ==
    aOut.kind = "report" =>
        (0 <= aOut.score_sum /\ aOut.score_sum <= 100 * aOut.parts)

\* number of <img> elements of the document that have no alt attribute
LackingAltAttribute(html) == Cardinality({i \in 1..Len(html) : html[i] = "img"})

\* C13: the report holds exactly one synthesized missing-alt issue when the
\* document has an <img> without an alt attribute, and none when it has no
\* such <img>.
C13_StaticMissingAlt ==
    aOut.kind = "report" =>
        Cardinality({j \in 1..Len(aOut.issues) : aOut.issues[j].src = "static"})
            = (IF LackingAltAttribute(aHtml) > 0 THEN 1 ELSE 0)

\* C15: a failed model call is tried again while fewer than MAX_TRIES
\* attempts have failed: the call is over with the failure value only after
\* MAX_TRIES failures.
C15_ExtractorRetry ==
    (aFailed # <<>> /\ Len(aFailed) < MAX_TRIES) => (aPc # "done" /\ aOut.kind # "error")

\* C16: once the model call of a chunk has failed, the call is over, its
\* value is the failure value (an error, no issues, no score), no further
\* model call is made, and no report is ever returned after a failed call.
C16_ExtractionFailureStops ==
    /\ [](aFailed # <<>> =>
            /\ aPc = "done"
            /\ aOut.kind = "error" /\ aOut.issues = <<>> /\ aOut.parts = 0
            /\ Len(aFailed) = 1
            /\ Len(aResults) = aFailed[1] - 1)
    /\ [][aFailed # <<>> => (aCalls' = aCalls /\ aOut' = aOut)]_vars

C16_Witness ==
    /\ aPc = "done"
    /\ aFailed = <<2>>
    /\ ~aAbbrev
    /\ aCalls[1] = 1 /\ aCalls[2] = 1
    /\ aOut.kind = "error"

\* C17: analyze_accessibility returns a report or a failure value on every
\* input and every model reply: no exception leaves the call.
C17_TypedFailures ==
    aOut.kind # "raised"

\* C18: a call that returns a report has made exactly one model request
\* for the first chunk only when abbreviated, and exactly one for each of
\* the n chunks otherwise.
C18_ScanDepth ==
    aOut.kind = "report" =>
        LET n == Len(Slices(aHtml))
            m == IF aAbbrev THEN Min(1, n) ELSE n
        IN  \A k \in 1..MaxChunks : aCalls[k] = (IF k <= m THEN 1 ELSE 0)

(***************************************************************************)
(* Properties of the tier gates (Spec)                                     *)
(***************************************************************************)
\* C19: a submission whose resolved tier is Free, made when
\* check_scan_limit(email) already reports at least 1 scan for today, runs
\* no pipeline: the scan block neither starts the fetch nor increments the
\* scan count nor changes the scan cache.
C19_FreeTierLimit ==
    [][\A s \in Sessions :
          ( /\ pc[s] = "scan" /\ pc'[s] # "scan" /\ runs' = runs
            /\ ScanRequested(ss[s])
            /\ ss'[s].tier = "Free"
            /\ CheckScanLimit(scans, ss[s].user_email) >= 1 )
          => ( /\ pc'[s] # "fetch"
               /\ scans' = scans
               /\ calls' = calls
               /\ ss'[s].scan_cache = ss[s].scan_cache )]_vars

\* C20: the depth of a submitted scan follows the tier get_user_tier
\* resolved for that submission: the pipeline of a session whose resolved
\* tier is not paid runs abbreviated, with mode False in its cache key,
\* whatever the Full-scan checkbox holds; and the export buttons and the
\* paid persona simulation are rendered only for a session whose tier is
\* Pro, Agency or Enterprise.
C20_TierGating ==
    \A s \in Sessions :
        /\ pc[s] \in {"fetch", "analyze"} =>
              /\ loc[s].full_scan = (ss[s].tier \in PaidTiers /\ ss[s].full_scan)
              /\ loc[s].cache_key =
                    CacheKey(loc[s].email, SafeNormalize(Strip(loc[s].url)), loc[s].full_scan)
              /\ ss[s].tier \notin PaidTiers => Abbreviated(loc[s])
        /\ pc[s] \in {"auto_fetch", "auto_analyze"} => Abbreviated(loc[s])
        /\ ui[s].page \in {"export_buttons", "paid_simulation"} => ss[s].tier \in PaidTiers

C20_Witness ==
    \E s \in Sessions :
        /\ pc[s] = "analyze"
        /\ ss[s].tier = "Free"
        /\ ss[s].full_scan
        /\ Abbreviated(loc[s])

(***************************************************************************)
(* Properties of get_user_tier (SpecTier)                                  *)
(***************************************************************************)
\* the first subscription of the list, in Stripe's order, whose status is
\* active or trialing; 0 when there is none
FirstLive(subs) ==
    IF \E i \in 1..Len(subs) : subs[i].status \in {"active", "trialing"}
    THEN CHOOSE i \in 1..Len(subs) :
            /\ subs[i].status \in {"active", "trialing"}
            /\ \A j \in 1..(i - 1) : subs[j].status \notin {"active", "trialing"}
    ELSE 0

\* C21: get_user_tier executes the Stripe lookup at most 3 times, a new
\* attempt only after the one before raised; its value is always a declared
\* tier and never an exception; it is "Free" when all 3 attempts raised,
\* when no customer or no subscription exists and when no subscription is
\* active or trialing; and a paid tier is returned only when the selected
\* subscription is active or trialing and its price id maps to that tier.
C21_TierResolution ==
    /\ Len(tLog) <= 3
    /\ \A i \in 1..(Len(tLog) - 1) : tLog[i].kind = "raise"
    /\ tPc = "fetch" => tOut = "none"
    /\ tPc = "done" =>
          LET last == tLog[Len(tLog)]
              live == FirstLive(last.subs)
          IN  /\ tOut \in DeclaredTiers
              /\ last.kind = "raise" => (Len(tLog) = 3 /\ tOut = "Free")
              /\ last.kind = "no_customer" => tOut = "Free"
              /\ (last.kind = "subs" /\ live = 0) => tOut = "Free"
              /\ tOut \in {"Pro", "Agency", "Enterprise"} =>
                    /\ last.kind = "subs" /\ live # 0
                    /\ \/ tOut = "Pro" /\ PriceIdOf(last.subs[live]) = "price_pro"
                       \/ tOut = "Agency" /\ PriceIdOf(last.subs[live]) = "price_agency"

C21_Witness ==
    /\ tPc = "done"
    /\ Len(tLog) = 3
    /\ tLog[3].kind = "subs" /\ Len(tLog[3].subs) = 2
    /\ tLog[3].subs[1].status = "canceled" /\ tLog[3].subs[1].item_price = "price_pro"
    /\ tLog[3].subs[2].status = "trialing" /\ tLog[3].subs[2].item_price = "price_agency"
    /\ tOut = "Agency"

(***************************************************************************)
(* Properties of simulate_experience (SpecSim)                             *)
(***************************************************************************)
\* the requests of mCalls that carried a chunk
ChunkCalls == SelectSeq(mCalls, LAMBDA c : c # 0)

\* C22: the cancellation flag is read before each chunk iteration: in no
\* step that starts with the flag set is a per-chunk model request made or
\* the list of narratives changed, and such a step of the loop leaves the
\* loop; at every moment the narratives collected are the replies for the
\* first chunks, one per chunk, in chunk order.
C22_CooperativeCancellation ==
    /\ [](/\ Len(mResults) <= Len(mChunks)
          /\ \A k \in 1..Len(mResults) : mResults[k] = Narrative(mChunks, k))
    /\ [][mCancel => /\ ChunkCalls' = ChunkCalls
                     /\ mResults' = mResults
                     /\ mPc = "loop" => mPc' = "summarize"]_vars

C22_Witness ==
    /\ mCancel
    /\ mPc = "done"
    /\ Len(mChunks) >= 3
    /\ Len(mResults) = 2
    /\ ChunkCalls = <<1, 2>>

\* the character positions of the document that no request carried
LeftOut == (1..mLen) \ UNION {mChunks[k].lo..mChunks[k].hi : k \in 1..Len(mChunks)}

\* C23: one model request per processed chunk, in chunk order; at most
\* SimCap chunks when abbreviated and all chunks otherwise; a run that
\* returns a summary made exactly one summarization request, after the
\* chunk requests; and when part of the document is in no chunk of the run,
\* the warning of the cap was emitted.
C23_CallBudget ==
    mPc # "start" =>
        /\ ChunkCalls = [k \in 1..Len(ChunkCalls) |-> k]
        /\ Len(ChunkCalls) <= Len(mChunks)
        /\ mAbbrev => Len(mChunks) <= SimCap
        /\ ~mAbbrev => mChunks = SimChunks(mLen)
        /\ mOut.kind = "summary" =>
              /\ Len(ChunkCalls) = Len(mResults)
              /\ mCalls = Append(ChunkCalls, 0)
        /\ LeftOut # {} => "cap" \in mWarnings

(***************************************************************************)
(* Properties of the scan pipeline of app.py (Spec)                        *)
(***************************************************************************)
\* the outcomes of a consolidated scan that ended in failure
FailedOutcomes == {"fetch_failed", "analysis_raised", "analysis_error", "stored_error"}

\* C24: when a run whose scan ended in failure (fetch failure, analysis
\* error, exception in the pipeline) is over, the submitted flag is False,
\* so that a rerun without a new submission passes over the scan block.
C24_NoAutomaticRetry ==
    \A s \in Sessions :
        (pc[s] = "idle" /\ ui[s].outcome \in FailedOutcomes) => ~ss[s].submitted

(***************************************************************************)
(* Properties of the analyzer's chunk list (SpecSlice)                     *)
(***************************************************************************)
\* C25: every boundary between two consecutive chunks that
\* analyze_accessibility builds lies at a position of the document where
\* the cumulative tag depth is 0, and the chunks of a full scan,
\* concatenated in order, are the document.
C25_AnalyzerChunksAreTagSafe ==
    lPc = "done" =>
        /\ \A k \in 1..(Len(lChunks) - 1) : Depth(lHtml, Offset(lChunks, k)) = 0
        /\ ~lAbbrev => Concat(lChunks) = lHtml

(***************************************************************************)
(* Properties of the merge of analyze_accessibility (SpecAnalyze)          *)
(***************************************************************************)
\* C26: the issues of a report are the issues of the per-chunk results in
\* chunk order, each result's issues in the order the model returned them,
\* followed by the synthesized missing-alt issue when there is one.
C26_IssueOrder ==
    aOut.kind = "report" =>
        aOut.issues = MergedIssues(aResults)
                        \o (IF MissingAlt(aHtml) > 0
                            THEN <<StaticIssue(MissingAlt(aHtml))>> ELSE <<>>)

(***************************************************************************)
(* Properties of the cache key (SpecKey)                                   *)
(***************************************************************************)
\* the triple (email, normalized URL, full_scan) of a request
Triple(r) == <<r.email, SafeNormalize(Strip(r.url)), r.full_scan>>

\* C27: two requests whose triples (email, normalized URL, full_scan)
\* differ never render to the same cache-key string.
C27_CacheKeyInjective ==
    (kPc = "done" /\ Triple(kA) # Triple(kB)) => kKeyA # kKeyB

\* a pipeline run for e-mail e starts in this step: a cache miss of the
\* consolidated scan or of the auto-scan
PipelineStarts(e) ==
    \E s \in Sessions :
        /\ pc[s] \in {"scan", "auto"}
        /\ pc'[s] \in {"fetch", "auto_fetch"}
        /\ loc'[s].email = e

\* C28: the count stored for an e-mail rises by exactly one in every step
\* that starts a pipeline run for that e-mail and is unchanged by every
\* other step (cache hits, rejected URLs, the rest of the script), and no
\* pipeline run starts for a URL that safe_normalize rejected.
C28_ScanCountAccounting ==
    [][\A e \in AllEmails :
          /\ CheckScanLimit(scans', e) =
                CheckScanLimit(scans, e) + (IF PipelineStarts(e) THEN 1 ELSE 0)
          /\ PipelineStarts(e) =>
                \A s \in Sessions :
                    pc'[s] \in {"fetch", "auto_fetch"} => loc'[s].normalized_url # <<>>]_vars

C30_NavigationIndexValid ==
    \A s \in Sessions :
        /\ ui[s].options \in {3, 4}
        /\ pc[s] = "idle" => ss[s].menu_index < MenuOptionCount(ss[s].tier)

====
